---- MODULE Spec2Model ----
(***************************************************************************)
(* Model of the Intelligent Case Routing API (src/main.py): the rule-based *)
(* CaseClassifier, the SalesforceIntegration case source and the two       *)
(* request handlers that classify a case.                                  *)
(*                                                                         *)
(* Text is modelled by TLA+ strings; Python's substring test, str.lower,   *)
(* str.title, str.startswith and slicing are computed character by         *)
(* character.  Python dicts are sequences of <<key, value>> pairs in       *)
(* insertion order, because the code depends on their iteration order.     *)
(* Floats: a raw score hits/len(keywords) is kept as the exact fraction    *)
(* <<hits, len>>; with at most 7 keywords two different fractions differ   *)
(* by at least 1/42, so IEEE division orders and equates them exactly as   *)
(* the fractions.  confidence_score is kept in hundredths (0.29 is 29).    *)
(***************************************************************************)
EXTENDS Integers, Sequences, FiniteSets, TLC

VARIABLES
    classifier,      \* the global CaseClassifier instance (its three tables)
    sf_integration,  \* the global SalesforceIntegration instance
    now,             \* datetime.now(), in seconds since process start
    request,         \* the last request served, with the CaseData classified
    response,        \* the response that handler run produced
    earlier          \* one earlier classify_case call, kept for comparison

vars == <<classifier, sf_integration, now, request, response, earlier>>

\* The clock (seconds since process start) is cut off at MaxClock.
MaxClock == 1

\* An Optional[...] field holds None or a value: the empty sequence, or the
\* one-element sequence of the value.
None == << >>
Some(x) == <<x>>
value_of(opt) == opt[1]

-----------------------------------------------------------------------------
(* Python string operations *)

ascii_uppercase == "ABCDEFGHIJKLMNOPQRSTUVWXYZ"
ascii_lowercase == "abcdefghijklmnopqrstuvwxyz"

CharAt(s, i) == SubSeq(s, i, i)

uppercase_chars == {CharAt(ascii_uppercase, i) : i \in 1..26}
lowercase_chars == {CharAt(ascii_lowercase, i) : i \in 1..26}

IsUpper(c) == c \in uppercase_chars
IsLower(c) == c \in lowercase_chars

ToLowerChar(c) ==
    IF IsUpper(c)
    THEN CharAt(ascii_lowercase, CHOOSE i \in 1..26 : CharAt(ascii_uppercase, i) = c)
    ELSE c

ToUpperChar(c) ==
    IF IsLower(c)
    THEN CharAt(ascii_uppercase, CHOOSE i \in 1..26 : CharAt(ascii_lowercase, i) = c)
    ELSE c

\* str.lower(), over the characters i..j of s (split in halves to keep the
\* evaluation shallow).
RECURSIVE lower_range(_, _, _)
lower_range(s, i, j) ==
    IF i > j THEN ""
    ELSE IF i = j THEN ToLowerChar(CharAt(s, i))
    ELSE LET m == (i + j) \div 2
         IN  lower_range(s, i, m) \o lower_range(s, m + 1, j)

lower_direct(s) == lower_range(s, 1, Len(s))

\* str.title(): a cased character is upper-cased when the character before
\* it is not cased, and lower-cased when it is.
title_char(s, i) ==
    LET c == CharAt(s, i)
        cased == IsUpper(c) \/ IsLower(c)
        previous_is_cased ==
            i > 1 /\ (IsUpper(CharAt(s, i - 1)) \/ IsLower(CharAt(s, i - 1)))
    IN  IF ~cased THEN c
        ELSE IF previous_is_cased THEN ToLowerChar(c)
        ELSE ToUpperChar(c)

RECURSIVE title_range(_, _, _)
title_range(s, i, j) ==
    IF i > j THEN ""
    ELSE IF i = j THEN title_char(s, i)
    ELSE LET m == (i + j) \div 2
         IN  title_range(s, i, m) \o title_range(s, m + 1, j)

title(s) == title_range(s, 1, Len(s))

\* keyword in text
contains_direct(keyword, text) ==
    \E i \in 1..(Len(text) - Len(keyword) + 1) :
        SubSeq(text, i, i + Len(keyword) - 1) = keyword

\* str.startswith(prefix)
startswith(s, prefix) ==
    Len(prefix) <= Len(s) /\ SubSeq(s, 1, Len(prefix)) = prefix

\* s[-n:]
last_chars(s, n) ==
    IF Len(s) <= n THEN s ELSE SubSeq(s, Len(s) - n + 1, Len(s))

-----------------------------------------------------------------------------
(* Python dict operations on sequences of <<key, value>> pairs *)

has_key(d, k) == \E i \in 1..Len(d) : d[i][1] = k

\* d.get(k, default)
dict_get(d, k, default) ==
    IF has_key(d, k)
    THEN d[CHOOSE i \in 1..Len(d) : d[i][1] = k][2]
    ELSE default

-----------------------------------------------------------------------------
(* CaseClassifier.__init__: the rule tables *)

category_keywords_init ==
    << <<"payroll",    <<"payroll", "salary", "wages", "tax withholding", "w2", "1099", "paycheck">> >>,
       <<"banking",    <<"bank", "deposit", "withdrawal", "account", "routing", "transfer", "ach">> >>,
       <<"fraud",      <<"fraud", "unauthorized", "suspicious", "dispute", "chargeback", "stolen">> >>,
       <<"technical",  <<"app", "login", "password", "error", "bug", "crash", "sync">> >>,
       <<"billing",    <<"bill", "charge", "fee", "payment", "invoice", "refund", "subscription">> >>,
       <<"compliance", <<"compliance", "audit", "regulation", "kyc", "aml", "verification">> >> >>

queue_mapping_init ==
    << <<"payroll",    "Payroll Support Team">>,
       <<"banking",    "Banking Operations">>,
       <<"fraud",      "Fraud Investigation">>,
       <<"technical",  "Technical Support">>,
       <<"billing",    "Billing Department">>,
       <<"compliance", "Compliance Team">> >>

priority_keywords_init ==
    << <<"high",   <<"urgent", "critical", "emergency", "fraud", "security", "breach">> >>,
       <<"medium", <<"issue", "problem", "help", "support">> >>,
       <<"low",    <<"question", "inquiry", "information", "how to">> >> >>

CaseClassifier ==
    [category_keywords |-> category_keywords_init,
     queue_mapping     |-> queue_mapping_init,
     priority_keywords |-> priority_keywords_init]

-----------------------------------------------------------------------------
(* Requests *)

\* subject and description of the direct requests
CaseTexts ==
    { <<"", "">>,
      <<"Hello", "how to update my profile">>,
      <<"Payroll error", "my w2 is wrong">>,
      <<"Stolen paycheck", "">>,
      <<"Login refund", "I have a question">>,
      <<"URGENT", "bank deposit help">>,
      <<"Security breach", "">>,
      <<"tax", "withholding inquiry">>,
      <<"Payroll", "salary wages W2 paycheck issue">> }

PriorityHints == {Some("High"), Some("Medium"), Some("Low"), Some("P1"), None}

CaseData ==
    { [subject |-> t[1], description |-> t[2], priority |-> p,
       customer_type |-> Some("Individual")] :
      t \in CaseTexts, p \in PriorityHints }

CaseNumbers == {"00001234", "00001235", "5004W00002ghfgbQAA", "99999999"}

-----------------------------------------------------------------------------
(* SalesforceIntegration *)

\* datetime.now().strftime('%Y%m%d%H%M%S') and .isoformat(): the clock
\* reading written out in digits.
strftime(clock) == ToString(clock)

SalesforceIntegration == [use_real_salesforce |-> TRUE]

\* Nothing in the try block of _query_real_salesforce can fail on a str.
query_real_salesforce_raises(case_number) == FALSE

query_real_salesforce(case_number, clock) ==
    LET case_id == IF startswith(case_number, "500")
                   THEN case_number
                   ELSE "500" \o case_number
        case_number_display ==
                   IF startswith(case_number, "500")
                   THEN "CASE-" \o last_chars(case_number, 6)
                   ELSE case_number
    IN  [Id          |-> case_id,
         CaseNumber  |-> case_number_display,
         Subject     |-> "Real Salesforce Case - " \o case_number,
         Description |-> "This is a real case from Salesforce with ID " \o case_id
                         \o ". The case details would be pulled from your actual Salesforce org.",
         Status      |-> "Open",
         Priority    |-> "Medium",
         Origin      |-> "Web",
         Type        |-> "Customer Service",
         OwnerId     |-> "0054W00000EvboCQAR",
         CreatedDate |-> strftime(clock),
         LastModifiedDate |-> strftime(clock),
         IsClosed    |-> FALSE]

mock_cases ==
    << <<"00001234",
         [Id          |-> "5004W00002ghfgbQAA",
          CaseNumber  |-> "00001234",
          Subject     |-> "Payroll tax withholding discrepancy for Q4 2024",
          Description |-> "Employee reports that federal tax withholding on W2 is $2,000 less than expected based on salary of $75,000 and married filing jointly status. Need to investigate payroll processing for October-December period.",
          Status      |-> "New",
          Priority    |-> "High",
          Origin      |-> "Email",
          Type        |-> "Payroll Issue",
          CreatedDate |-> "2024-12-15T10:30:00.000+0000"] >>,
       <<"00001235",
         [Id          |-> "5004W00002ghfgcQAA",
          CaseNumber  |-> "00001235",
          Subject     |-> "ACH deposit failed - invalid routing number",
          Description |-> "Customer attempted to set up direct deposit but bank rejected the ACH transfer. Error message indicates routing number 123456789 is invalid. Customer bank is Wells Fargo, account verified.",
          Status      |-> "Open",
          Priority    |-> "Medium",
          Origin      |-> "Phone",
          Type        |-> "Banking Issue",
          CreatedDate |-> "2024-12-16T14:22:00.000+0000"] >> >>

get_mock_case(case_number, clock) ==
    dict_get(mock_cases, case_number,
        [Id          |-> "500" \o case_number,
         CaseNumber  |-> case_number,
         Subject     |-> "Case " \o case_number \o " - General inquiry",
         Description |-> "This is a sample case " \o case_number
                         \o " for demonstration purposes.",
         Status      |-> "New",
         Priority    |-> "Medium",
         Origin      |-> "Web",
         Type        |-> "General",
         CreatedDate |-> strftime(clock)])

\* The mock data is the fallback of the except branch, or the only source
\* when use_real_salesforce is off.
get_case_by_number(self, case_number, clock) ==
    IF self.use_real_salesforce
    THEN IF query_real_salesforce_raises(case_number)
         THEN get_mock_case(case_number, clock)
         ELSE query_real_salesforce(case_number, clock)
    ELSE get_mock_case(case_number, clock)

\* `not sf_case`: an empty dict.
is_falsy(sf_case) == DOMAIN sf_case = {}

\* sf_case.get(key, default)
rec_get(sf_case, key, default) ==
    IF key \in DOMAIN sf_case THEN sf_case[key] ELSE default

-----------------------------------------------------------------------------
(* lower() and `in` are tabulated once over the strings the requests of the
   model can carry (the tables hold exactly what lower_direct and
   contains_direct compute); any other string is computed directly. *)

SourceRecords ==
    {query_real_salesforce(n, 0) : n \in CaseNumbers}
    \cup {get_mock_case(n, 0) : n \in CaseNumbers}

RequestTexts ==
    {cd.subject \o " " \o cd.description : cd \in CaseData}
    \cup {r.Subject \o " " \o r.Description : r \in SourceRecords}
    \cup {value_of(p) : p \in PriorityHints \ {None}}
    \cup {r.Priority : r \in SourceRecords}

lower_table == [s \in RequestTexts |-> lower_direct(s)]

\* str.lower()
lower(s) == IF s \in RequestTexts THEN lower_table[s] ELSE lower_direct(s)

Keywords ==
    UNION {{rule[2][k] : k \in 1..Len(rule[2])} :
           rule \in {category_keywords_init[i] : i \in 1..Len(category_keywords_init)}
                    \cup {priority_keywords_init[i] : i \in 1..Len(priority_keywords_init)}}

LoweredTexts == {lower_table[s] : s \in RequestTexts}

keywords_in ==
    [text \in LoweredTexts |->
        {keyword \in Keywords : contains_direct(keyword, text)}]

\* keyword in text
Contains(keyword, text) ==
    IF text \in LoweredTexts /\ keyword \in Keywords
    THEN keyword \in keywords_in[text]
    ELSE contains_direct(keyword, text)

-----------------------------------------------------------------------------
(* CaseClassifier.classify_case *)

\* sum(1 for keyword in keywords if keyword in text)
hits(keywords, text) ==
    Cardinality({i \in 1..Len(keywords) : Contains(keywords[i], text)})

\* The loop that fills category_scores: the categories with a hit, in the
\* order of category_keywords, each with its score hits / len(keywords).
RECURSIVE category_scores_from(_, _, _)
category_scores_from(rules, text, i) ==
    IF i > Len(rules) THEN << >>
    ELSE LET score == hits(rules[i][2], text)
             rest  == category_scores_from(rules, text, i + 1)
         IN  IF score > 0
             THEN << <<rules[i][1], <<score, Len(rules[i][2])>> >> >> \o rest
             ELSE rest

\* Faulty variant: the `if score > 0` filter is missing, so every category
\* is a candidate.
category_scores_unfiltered(self, text) ==
    [i \in 1..Len(self.category_keywords) |->
        <<self.category_keywords[i][1],
          <<hits(self.category_keywords[i][2], text),
            Len(self.category_keywords[i][2])>> >>]

category_scores(self, text) == category_scores_from(self.category_keywords, text, 1)

\* a < b for fractions <<numerator, denominator>>
score_less(a, b) == a[1] * b[2] < b[1] * a[2]

\* max(scores, key=scores.get): the keys are visited in order and the
\* running maximum is replaced only by a strictly greater score.
RECURSIVE max_key_from(_, _, _)
max_key_from(scores, i, best) ==
    IF i > Len(scores) THEN scores[best][1]
    ELSE IF score_less(scores[best][2], scores[i][2])
         THEN max_key_from(scores, i + 1, i)
         ELSE max_key_from(scores, i + 1, best)

\* Faulty variant: the first candidate is taken, whatever the scores.
max_key_first(scores) == scores[1][1]

\* Faulty variant: the running maximum is also replaced by an equal score,
\* so the last of the best candidates is taken.
RECURSIVE max_key_last_from(_, _, _)
max_key_last_from(scores, i, best) ==
    IF i > Len(scores) THEN scores[best][1]
    ELSE IF score_less(scores[i][2], scores[best][2])
         THEN max_key_last_from(scores, i + 1, best)
         ELSE max_key_last_from(scores, i + 1, i)

max_key_last(scores) == max_key_last_from(scores, 2, 1)

max_key(scores) == max_key_from(scores, 2, 1)

\* Faulty variant: the min(..., 1.0) is missing.
confidence_of_uncapped(score) ==
    (400 * score[1] + score[2]) \div (2 * score[2])

\* round(min(score * 2, 1.0), 2), in hundredths.  200 * hits / len is never
\* half-way between two integers for len in 6..7, so the rounding mode
\* cannot matter.
confidence_of(score) ==
    IF 2 * score[1] >= score[2] THEN 100
    ELSE (400 * score[1] + score[2]) \div (2 * score[2])

\* Faulty variant: the break is missing, so the last rule with a match wins
\* (the first one met when the rules are scanned from the end).
RECURSIVE priority_from_no_break(_, _, _, _)
priority_from_no_break(rules, text, i, hint) ==
    IF i > Len(rules) THEN hint
    ELSE LET j == Len(rules) - i + 1
         IN  IF \E k \in 1..Len(rules[j][2]) : Contains(rules[j][2][k], text)
             THEN rules[j][1]
             ELSE priority_from_no_break(rules, text, i + 1, hint)

\* The for loop over priority_keywords.items() with its break.
RECURSIVE priority_from(_, _, _, _)
priority_from(rules, text, i, hint) ==
    IF i > Len(rules) THEN hint
    ELSE IF \E k \in 1..Len(rules[i][2]) : Contains(rules[i][2][k], text)
         THEN rules[i][1]
         ELSE priority_from(rules, text, i + 1, hint)

resolution_times ==
    << <<"high",   "2-4 hours">>,
       <<"medium", "1-2 business days">>,
       <<"low",    "3-5 business days">> >>

\* Faulty variant: the table is read with the Title Case value shown in the
\* result.
estimated_resolution_time_titled(priority_level) ==
    dict_get(resolution_times, title(priority_level), "2-3 business days")

\* resolution_times.get(priority_level, "2-3 business days")
estimated_resolution_time(priority_level) ==
    dict_get(resolution_times, priority_level, "2-3 business days")

actions ==
    << <<"payroll",    <<"Verify employee information",
                         "Check payroll processing status",
                         "Review tax withholding settings",
                         "Escalate to payroll specialist if needed">> >>,
       <<"banking",    <<"Verify account details",
                         "Check transaction history",
                         "Review banking integration status",
                         "Contact banking partner if required">> >>,
       <<"fraud",      <<"Immediately flag account for review",
                         "Document all suspicious activity",
                         "Escalate to fraud investigation team",
                         "Implement temporary security measures">> >>,
       <<"technical",  <<"Gather system logs and error details",
                         "Check for known issues",
                         "Test reproduction steps",
                         "Escalate to engineering if needed">> >>,
       <<"billing",    <<"Review billing history",
                         "Check payment processing status",
                         "Verify subscription details",
                         "Process refund if applicable">> >>,
       <<"compliance", <<"Review compliance requirements",
                         "Gather necessary documentation",
                         "Escalate to compliance team",
                         "Ensure regulatory adherence">> >> >>

default_actions ==
    <<"Review case details thoroughly",
      "Gather additional information if needed",
      "Follow standard resolution procedures",
      "Escalate if resolution exceeds timeframe">>

URGENT == "URGENT: Prioritize immediate attention"

\* Faulty variant: the priority is compared with its Title Case form.
get_suggested_actions_titled(category, priority) ==
    LET base_actions == dict_get(actions, category, default_actions)
    IN  IF priority = "High" THEN <<URGENT>> \o base_actions ELSE base_actions

\* Faulty variant: the playlists are shared between the calls, so the list
\* the previous call for the category inserted into is the one read now.
get_suggested_actions_shared(category, priority) ==
    LET previous == IF response.body = None THEN None
                    ELSE IF value_of(response.body).predicted_category = category
                    THEN Some(value_of(response.body).suggested_actions)
                    ELSE None
        base_actions == IF previous = None
                        THEN dict_get(actions, category, default_actions)
                        ELSE value_of(previous)
    IN  IF priority = "high" THEN <<URGENT>> \o base_actions ELSE base_actions

\* Faulty variant: the fallback playlist is one list shared by all calls (a
\* module-level default), so the list the previous general call inserted
\* into is the one a general call reads now.
get_suggested_actions_shared_default(category, priority) ==
    LET previous == IF response.body = None THEN None
                    ELSE IF value_of(response.body).predicted_category = category
                    THEN Some(value_of(response.body).suggested_actions)
                    ELSE None
        base_actions == IF has_key(actions, category)
                        THEN dict_get(actions, category, default_actions)
                        ELSE IF previous = None THEN default_actions
                        ELSE value_of(previous)
    IN  IF priority = "high" THEN <<URGENT>> \o base_actions ELSE base_actions

\* The actions dict is rebuilt by every call, so the insert at index 0
\* changes a list no other call sees.
get_suggested_actions(category, priority) ==
    LET base_actions == dict_get(actions, category, default_actions)
    IN  IF priority = "high" THEN <<URGENT>> \o base_actions ELSE base_actions

\* case_data.priority.lower() raises AttributeError when priority is None
\* (the field is Optional[str]).
classify_case_raises(case_data) == case_data.priority = None

classify_case(self, case_data, clock) ==
    LET text == lower(case_data.subject \o " " \o case_data.description)
        scores == category_scores(self, text)
        predicted_category ==
            IF scores = << >> THEN "general" ELSE max_key(scores)
        confidence ==
            IF scores = << >> THEN 50
            ELSE confidence_of(dict_get(scores, predicted_category, <<0, 1>>))
        recommended_queue ==
            IF scores = << >> THEN "General Support"
            ELSE dict_get(self.queue_mapping, predicted_category, "General Support")
        priority_level ==
            priority_from(self.priority_keywords, text, 1,
                          lower(value_of(case_data.priority)))
    IN  [case_id                   |-> "CASE-" \o strftime(clock),
         case_number               |-> None,
         predicted_category        |-> predicted_category,
         confidence_score          |-> confidence,
         recommended_queue         |-> recommended_queue,
         priority_level            |-> title(priority_level),
         estimated_resolution_time |-> estimated_resolution_time(priority_level),
         suggested_actions         |->
             get_suggested_actions(predicted_category, priority_level),
         salesforce_data           |-> None]

-----------------------------------------------------------------------------
(* Responses *)

HTTPException(status_code, detail) ==
    [status_code |-> status_code, detail |-> detail, body |-> None]

OK(body) == [status_code |-> 200, detail |-> "", body |-> Some(body)]

-----------------------------------------------------------------------------
(* The state machine *)

Init ==
    /\ classifier = CaseClassifier
    /\ sf_integration = SalesforceIntegration
    /\ now = 0
    /\ request = [endpoint |-> "", case_data |-> None, case_number |-> None]
    /\ response = [status_code |-> 0, detail |-> "", body |-> None]
    /\ earlier = None

\* As long as no call is kept for comparison, a classify_case call that
\* returned may become the one.
Keep(case_data, analysis) ==
    IF earlier = None
    THEN earlier' \in {None, Some([case_data |-> case_data, analysis |-> analysis])}
    ELSE UNCHANGED earlier

\* POST /analyze-case
analyze_case(case_data) ==
    /\ request' = [endpoint |-> "/analyze-case", case_data |-> Some(case_data),
                   case_number |-> None]
    /\ IF classify_case_raises(case_data)
       THEN /\ response' = HTTPException(500,
                   "Analysis failed: 'NoneType' object has no attribute 'lower'")
            /\ UNCHANGED earlier
       ELSE LET analysis == classify_case(classifier, case_data, now)
            IN  /\ response' = OK(analysis)
                /\ Keep(case_data, analysis)
    /\ UNCHANGED <<classifier, sf_integration, now>>

\* POST /analyze-case-by-number.  The HTTPException(404) is raised inside
\* the try block, and HTTPException is an Exception: the except clause
\* catches it and raises the 500 in its place.
analyze_case_by_number(case_number) ==
    LET sf_case == get_case_by_number(sf_integration, case_number, now)
        case_data ==
            [subject       |-> rec_get(sf_case, "Subject", ""),
             description   |-> rec_get(sf_case, "Description", ""),
             priority      |-> Some(rec_get(sf_case, "Priority", "Medium")),
             customer_type |->
                 IF rec_get(sf_case, "Type", "") \in {"Payroll Issue", "Banking Issue"}
                 THEN Some("Business") ELSE Some("Individual")]
        analysis == classify_case(classifier, case_data, now)
    IN  /\ request' = [endpoint |-> "/analyze-case-by-number",
                       case_data |-> IF is_falsy(sf_case) THEN None ELSE Some(case_data),
                       case_number |-> Some(case_number)]
        /\ IF is_falsy(sf_case)
           THEN /\ response' = HTTPException(500,
                       "Analysis failed: 404: Case " \o case_number \o " not found")
                /\ UNCHANGED earlier
           ELSE /\ response' = OK(
                       [analysis EXCEPT
                           !.case_number = Some(case_number),
                           !.salesforce_data = Some(
                               [case_id      |-> rec_get(sf_case, "Id", ""),
                                status       |-> rec_get(sf_case, "Status", ""),
                                origin       |-> rec_get(sf_case, "Origin", ""),
                                type         |-> rec_get(sf_case, "Type", ""),
                                created_date |-> rec_get(sf_case, "CreatedDate", "")])])
                /\ Keep(case_data, analysis)
        /\ UNCHANGED <<classifier, sf_integration, now>>

\* A second passes.
Tick ==
    /\ now < MaxClock
    /\ now' = now + 1
    /\ UNCHANGED <<classifier, sf_integration, request, response, earlier>>

Next ==
    \/ \E case_data \in CaseData : analyze_case(case_data)
    \/ \E case_number \in CaseNumbers : analyze_case_by_number(case_number)
    \/ Tick

Spec == Init /\ [][Next]_vars

-----------------------------------------------------------------------------
(* What the properties below speak about *)

\* A handler run has produced a CaseAnalysis.
Answered == response.status_code = 200

Result == value_of(response.body)

\* The CaseData that was classified, and the text classify_case scanned.
Classified == value_of(request.case_data)

ScannedText == lower(Classified.subject \o " " \o Classified.description)

CategoryNames == {"payroll", "banking", "fraud", "technical", "billing", "compliance"}

\* Declaration order of the categories.
Declared(c) ==
    CASE c = "payroll" -> 1 [] c = "banking" -> 2 [] c = "fraud" -> 3
      [] c = "technical" -> 4 [] c = "billing" -> 5 [] c = "compliance" -> 6

KeywordsOf(c) == dict_get(category_keywords_init, c, << >>)

\* Number of distinct triggers of category c present in the scanned text, and
\* the number of triggers of c: the raw score of c is Hits(c) / Size(c).
Hits(c) == Cardinality({k \in 1..Len(KeywordsOf(c)) : Contains(KeywordsOf(c)[k], ScannedText)})

Size(c) == Len(KeywordsOf(c))

AnyHit == \E c \in CategoryNames : Hits(c) > 0

\* Some trigger of priority rule p is present in the scanned text.
PriorityHit(p) ==
    LET keywords == dict_get(priority_keywords_init, p, << >>)
    IN  \E k \in 1..Len(keywords) : Contains(keywords[k], ScannedText)

\* The playlist of a category, or the default one.
Playlist(c) == dict_get(actions, c, default_actions)

-----------------------------------------------------------------------------
(* Properties *)

\* C1: whenever some category has a trigger hit, the predicted category is one
\* of the six categories and no category has a greater raw score than it.
C1_MaxScoreWins ==
    (Answered /\ AnyHit) =>
        /\ Result.predicted_category \in CategoryNames
        /\ \A c \in CategoryNames :
               Hits(c) * Size(Result.predicted_category)
                   <= Hits(Result.predicted_category) * Size(c)

\* One fraud hit (1/6) has beaten one payroll hit (1/7), though payroll is
\* declared first.
C1_Witness ==
    /\ Answered
    /\ Hits("payroll") = 1
    /\ Hits("fraud") = 1
    /\ Result.predicted_category = "fraud"

\* C2: when several categories share the maximal raw score, the earliest
\* declared of them is predicted: every category declared before the
\* predicted one has a strictly smaller raw score.
C2_TieToEarliestDeclared ==
    (Answered /\ AnyHit) =>
        /\ Result.predicted_category \in CategoryNames
        /\ \A c \in CategoryNames :
               Declared(c) < Declared(Result.predicted_category) =>
                   Hits(c) * Size(Result.predicted_category)
                       < Hits(Result.predicted_category) * Size(c)

\* technical and billing tie with one hit of seven each, and technical, the
\* earlier declared, is predicted.
C2_Witness ==
    /\ Answered
    /\ Hits("technical") = 1
    /\ Hits("billing") = 1
    /\ \A c \in CategoryNames \ {"technical", "billing"} : Hits(c) = 0
    /\ Result.predicted_category = "technical"

C6_Confidence ==
    (Answered /\ AnyHit) =>
        LET h == Hits(Result.predicted_category)
            K == Size(Result.predicted_category)
            exact == IF 200 * h <= 100 * K THEN 200 * h ELSE 100 * K
            conf == Result.confidence_score
        IN  /\ conf \in 0..100
            /\ 2 * conf * K - 2 * exact <= K
            /\ 2 * exact - 2 * conf * K <= K
            /\ (h = 1 /\ K = 7) => conf = 29
            /\ (h = 1 /\ K = 6) => conf = 33

\* Five of the seven payroll triggers are present: twice the raw score is
\* 10/7 and the confidence is 1.0.
C6_Witness ==
    /\ Answered
    /\ Result.predicted_category = "payroll"
    /\ Hits("payroll") = 5
    /\ Result.confidence_score = 100

\* The request was a lookup by identifier and has been served.
LookedUp ==
    /\ request.endpoint = "/analyze-case-by-number"
    /\ response.status_code # 0

\* The Case Source holds a record for the identifier: the stored cases.
HasRecord(case_number) == has_key(mock_cases, case_number)

\* C7: a lookup of an identifier the Case Source has no record for ends in the
\* "case not found" failure (404) and produces no CaseAnalysis.
C7_UnknownCaseNotFound ==
    (LookedUp /\ ~HasRecord(value_of(request.case_number))) =>
        /\ response.status_code = 404
        /\ response.body = None

\* C8: the sample case numbers 00001234 and 00001235 resolve to their stored
\* records: the response carries the record's type and the classification of
\* the record's subject and description.
C8_SampleCasesResolve ==
    (LookedUp /\ HasRecord(value_of(request.case_number))) =>
        LET stored == dict_get(mock_cases, value_of(request.case_number), [Type |-> ""])
        IN  /\ Answered
            /\ value_of(Result.salesforce_data).type = stored.Type
            /\ value_of(request.case_number) = "00001234" =>
                   value_of(Result.salesforce_data).type = "Payroll Issue"
            /\ value_of(request.case_number) = "00001235" =>
                   value_of(Result.salesforce_data).type = "Banking Issue"
            /\ Classified.subject = stored.Subject
            /\ Classified.description = stored.Description

\* The fields of a CaseAnalysis other than case_id.
Fields(analysis) ==
    <<analysis.predicted_category, analysis.confidence_score,
      analysis.recommended_queue, analysis.priority_level,
      analysis.estimated_resolution_time, analysis.suggested_actions>>

C10_ResolutionTime ==
    Answered =>
        Result.estimated_resolution_time =
            CASE Result.priority_level = "High"   -> "2-4 hours"
              [] Result.priority_level = "Medium" -> "1-2 business days"
              [] Result.priority_level = "Low"    -> "3-5 business days"
              [] OTHER                            -> "2-3 business days"

\* The hint P1 was not overridden by any priority trigger: the priority shown
\* is P1 and the resolution time is the fallback.
C10_Witness ==
    /\ Answered
    /\ Classified.priority = Some("P1")
    /\ Result.priority_level = "P1"
    /\ Result.estimated_resolution_time = "2-3 business days"

\* Number of times the URGENT action occurs in a list of actions.
UrgentCount(suggested) ==
    Cardinality({i \in 1..Len(suggested) :
                    suggested[i] = "URGENT: Prioritize immediate attention"})

\* C11: no sequence of calls changes the classifier's three tables or the
\* playlists: the tables are always the ones built at start, and every
\* result has 4 actions without the URGENT action, or, when its own priority
\* is High, 5 actions with the URGENT action once, at the front.
C11_TablesAndPlaylistsUnchanged ==
    /\ classifier.category_keywords = category_keywords_init
    /\ classifier.queue_mapping = queue_mapping_init
    /\ classifier.priority_keywords = priority_keywords_init
    /\ Answered =>
           \/ /\ Len(Result.suggested_actions) = 4
              /\ UrgentCount(Result.suggested_actions) = 0
           \/ /\ Len(Result.suggested_actions) = 5
              /\ Result.priority_level = "High"
              /\ Result.suggested_actions[1] = "URGENT: Prioritize immediate attention"
              /\ UrgentCount(Result.suggested_actions) = 1

\* An earlier general case of high priority got the URGENT action in front of
\* the fallback playlist; a later general case of low priority gets the four
\* fallback actions alone.
C11_Witness ==
    /\ Answered
    /\ earlier # None
    /\ value_of(earlier).analysis.predicted_category = "general"
    /\ value_of(earlier).analysis.priority_level = "High"
    /\ Len(value_of(earlier).analysis.suggested_actions) = 5
    /\ value_of(earlier).analysis.suggested_actions[1]
           = "URGENT: Prioritize immediate attention"
    /\ Result.predicted_category = "general"
    /\ Result.priority_level = "Low"
    /\ Len(Result.suggested_actions) = 4
    /\ Result.suggested_actions[1] = "Review case details thoroughly"
    /\ classifier = CaseClassifier
====
